---- MODULE Spec2Model ----
(***************************************************************************)
(* Animatable (Source/Engine/Scene/Animatable.cpp): the attribute          *)
(* animation binder of a scene object.  One Animatable `a` is driven       *)
(* through its public operations; SaveXML writes a document, and a second, *)
(* newly constructed Animatable loads that document.                       *)
(***************************************************************************)
EXTENDS Integers, Sequences, FiniteSets, TLC

VARIABLES
    hasAttributes,                 \* GetAttributes() of the object's type is non-null
    animationEnabled_,             \* Animatable::animationEnabled_
    objectAnimation_,              \* Animatable::objectAnimation_
    attributeAnimationInstances_,  \* Animatable::attributeAnimationInstances_ (name -> instance)
    animatedNetworkAttributes_,    \* Animatable::animatedNetworkAttributes_
    last,                          \* the latest call: what it was given and returned, the hooks
                                   \* it called, the attributes it wrote, the error it logged
    doc,                           \* the document written by SaveXML (NoDoc before)
    loaded                         \* the newly constructed Animatable that loaded doc

vars == <<hasAttributes, animationEnabled_, objectAnimation_, attributeAnimationInstances_,
          animatedNetworkAttributes_, last, doc, loaded>>

(***************************************************************************)
(* Bounds and input sets                                                   *)
(***************************************************************************)
MaxTimeStep == 1

Speeds == {1, 2}
TimeSteps == 1..MaxTimeStep

(***************************************************************************)
(* The attribute schema of the object's type                               *)
(***************************************************************************)
AttrX == [name_ |-> "X", type_ |-> "VAR_FLOAT", mode_ |-> {"AM_FILE", "AM_NET"}]
AttrY == [name_ |-> "Y", type_ |-> "VAR_FLOAT", mode_ |-> {"AM_FILE"}]
NullAttributeInfo == [name_ |-> "", type_ |-> "VAR_NONE", mode_ |-> {}]

Attributes == <<AttrX, AttrY>>

IsNetAttribute(info) == "AM_NET" \in info.mode_

NetworkAttributes == SelectSeq(Attributes, IsNetAttribute)

Names == {"X", "Y", "Z"}

AttributeNames == {Attributes[i].name_ : i \in DOMAIN Attributes}

(***************************************************************************)
(* Resources: attribute animations (curves) and object animations          *)
(* (bundles).  A resource is identified by its id; the definition of a     *)
(* curve is its value type and its end time.                               *)
(***************************************************************************)
NullId == <<"null", 0>>

NullAnimation == [id |-> NullId, valueType_ |-> "VAR_NONE", endTime |-> 0, objectAnimation_ |-> NullId]

Curve(id, type, end, owner) == [id |-> id, valueType_ |-> type, endTime |-> end, objectAnimation_ |-> owner]

WalkId == <<"bundle", 2>>
InlineId == <<"bundle", 1>>

AnimC1 == Curve(<<"curve", 1>>, "VAR_FLOAT", 2, NullId)
AnimB1X == Curve(<<"curve", 2>>, "VAR_FLOAT", 1, InlineId)
AnimB1Y == Curve(<<"curve", 3>>, "VAR_FLOAT", 1, InlineId)
AnimB2X == Curve(<<"curve", 4>>, "VAR_FLOAT", 1, WalkId)
AnimB2Y == Curve(<<"curve", 5>>, "VAR_INT", 1, WalkId)

NoInfos == [n \in {} |-> [anim |-> NullAnimation, speed |-> 0]]

NullObjectAnimation == [id |-> NullId, name_ |-> "", attributeAnimationInfos_ |-> NoInfos]

InlineAnimation ==
    [id |-> InlineId, name_ |-> "",
     attributeAnimationInfos_ |->
        [n \in {"X", "Y"} |-> IF n = "X" THEN [anim |-> AnimB1X, speed |-> 2]
                                         ELSE [anim |-> AnimB1Y, speed |-> 1]]]

WalkAnimation ==
    [id |-> WalkId, name_ |-> "walk",
     attributeAnimationInfos_ |->
        [n \in {"X", "Y"} |-> IF n = "X" THEN [anim |-> AnimB2X, speed |-> 1]
                                         ELSE [anim |-> AnimB2Y, speed |-> 2]]]

StaticAnimations == {AnimC1, AnimB1X, AnimB1Y, AnimB2X, AnimB2Y}
ObjectAnimations == {InlineAnimation, WalkAnimation}

\* ResourceCache::GetResource<ObjectAnimation>(name): null when no such resource
GetResource(name) == IF name = WalkAnimation.name_ THEN WalkAnimation ELSE NullObjectAnimation

ResourceNames == {"", "walk", "missing"}

(***************************************************************************)
(* Binding instances                                                       *)
(***************************************************************************)
NullInstance ==
    [attributeInfo_ |-> NullAttributeInfo, attributeAnimation_ |-> NullAnimation,
     speed_ |-> 0, currentTime_ |-> 0]

\* new AttributeAnimationInstance(this, *attributeInfo, attributeAnimation, speed)
NewInstance(attributeInfo, attributeAnimation, speed) ==
    [attributeInfo_ |-> attributeInfo, attributeAnimation_ |-> attributeAnimation,
     speed_ |-> speed, currentTime_ |-> 0]

\* AttributeAnimationInstance::SetSpeed
InstanceSetSpeed(instance, speed) == [instance EXCEPT !.speed_ = speed]

\* AttributeAnimationInstance::Update: the new playback time, and whether it finished
InstanceAdvance(instance, timeStep) ==
    [instance EXCEPT !.currentTime_ = @ + timeStep * instance.speed_]

InstanceFinished(instance) == instance.currentTime_ >= instance.attributeAnimation_.endTime

NoInstances == [n \in {} |-> NullInstance]

(***************************************************************************)
(* The Animatable as a value: its fields, and what the running call has    *)
(* done so far: the calls of OnAttributeAnimationAdded and                 *)
(* OnAttributeAnimationRemoved, the attribute writes, the LOGERROR text    *)
(***************************************************************************)
NoWrites == [n \in AttributeNames |-> 0]

\* Animatable::Animatable
NewAnimatable ==
    [animationEnabled_ |-> TRUE,
     objectAnimation_ |-> NullObjectAnimation,
     attributeAnimationInstances_ |-> NoInstances,
     animatedNetworkAttributes_ |-> {},
     added |-> 0, removed |-> 0, writes |-> NoWrites, error |-> ""]

\* the Animatable at the start of a call: nothing written or logged yet
Self ==
    [animationEnabled_ |-> animationEnabled_,
     objectAnimation_ |-> objectAnimation_,
     attributeAnimationInstances_ |-> attributeAnimationInstances_,
     animatedNetworkAttributes_ |-> animatedNetworkAttributes_,
     added |-> 0, removed |-> 0, writes |-> NoWrites, error |-> ""]

\* Animatable::GetAttributeAnimationInstance
GetAttributeAnimationInstance(st, name) ==
    IF name \in DOMAIN st.attributeAnimationInstances_
    THEN st.attributeAnimationInstances_[name]
    ELSE NullInstance

MapPut(m, k, v) == [n \in DOMAIN m \cup {k} |-> IF n = k THEN v ELSE m[n]]
MapErase(m, k) == [n \in DOMAIN m \ {k} |-> m[n]]

(***************************************************************************)
(* Animatable::SetAttributeAnimation                                       *)
(***************************************************************************)
IsSameAnimationNever(currentInstance, attributeAnimation) == FALSE

\* line 144: currentInstance && attributeAnimation == currentInstance->GetAttributeAnimation()
IsSameAnimation(currentInstance, attributeAnimation) ==
    /\ currentInstance # NullInstance
    /\ attributeAnimation.id = currentInstance.attributeAnimation_.id

\* the scan takes the first descriptor without comparing its name
FindAnyAttributeInfo(name) == Attributes[1]

\* lines 163-170: the first descriptor of GetAttributes() named name, or null
FindAttributeInfo(name) ==
    LET hits == {i \in DOMAIN Attributes : Attributes[i].name_ = name}
    IN  IF hits = {} THEN NullAttributeInfo
        ELSE Attributes[CHOOSE i \in hits : \A j \in hits : i <= j]

\* lines 151-171: the current instance's descriptor, else the schema's
ResolveAttributeInfo(currentInstance, name) ==
    IF currentInstance # NullInstance THEN currentInstance.attributeInfo_
    ELSE IF ~hasAttributes THEN NullAttributeInfo
    ELSE FindAttributeInfo(name)

\* lines 157-161, 173-177: the error logged when no descriptor was found
NoAttributeInfoError(currentInstance) ==
    IF currentInstance = NullInstance /\ ~hasAttributes THEN "has no attributes" ELSE "Invalid name"

ValueTypeUnchecked(attributeAnimation, attributeInfo) == TRUE

\* line 180: the value type is the same as the attribute type
ValueTypeMatches(attributeAnimation, attributeInfo) ==
    attributeAnimation.valueType_ = attributeInfo.type_

\* lines 189-197: the first network attribute named name
FindNetworkAttribute(name) ==
    LET hits == {i \in DOMAIN NetworkAttributes : NetworkAttributes[i].name_ = name}
    IN  IF hits = {} THEN {}
        ELSE {NetworkAttributes[CHOOSE i \in hits : \A j \in hits : i <= j]}

NotifyAddedAlways(currentInstance) == TRUE

\* line 202: the added hook fires when there was no instance
NotifyAdded(currentInstance) == currentInstance = NullInstance

\* lines 150-203: bind a curve that is not the one already bound
BindAnimation(st, name, attributeAnimation, speed, currentInstance) ==
    LET attributeInfo == ResolveAttributeInfo(currentInstance, name)
    IN  IF attributeInfo = NullAttributeInfo
        THEN [st EXCEPT !.error = NoAttributeInfoError(currentInstance)]
        ELSE IF ~ValueTypeMatches(attributeAnimation, attributeInfo)
        THEN [st EXCEPT !.error = "Invalid value type"]
        ELSE [st EXCEPT
                !.animatedNetworkAttributes_ =
                    IF IsNetAttribute(attributeInfo) THEN @ \cup FindNetworkAttribute(name) ELSE @,
                !.attributeAnimationInstances_ =
                    MapPut(@, name, NewInstance(attributeInfo, attributeAnimation, speed)),
                !.added = IF NotifyAdded(currentInstance) THEN @ + 1 ELSE @]

\* lines 207-225: remove the instance of name
UnbindAnimation(st, name, currentInstance) ==
    IF currentInstance = NullInstance THEN st
    ELSE [st EXCEPT
            !.animatedNetworkAttributes_ =
                IF IsNetAttribute(currentInstance.attributeInfo_)
                THEN @ \ FindNetworkAttribute(name) ELSE @,
            !.attributeAnimationInstances_ = MapErase(@, name),
            !.removed = @ + 1]

SetAttributeAnimation(st, name, attributeAnimation, speed) ==
    LET currentInstance == GetAttributeAnimationInstance(st, name)
    IN  IF attributeAnimation # NullAnimation
        THEN IF IsSameAnimation(currentInstance, attributeAnimation)
             THEN [st EXCEPT !.attributeAnimationInstances_[name] = InstanceSetSpeed(@, speed)]
             ELSE BindAnimation(st, name, attributeAnimation, speed, currentInstance)
        ELSE UnbindAnimation(st, name, currentInstance)

\* the speed is set on a new instance of the same curve
SetSpeedRestarts(st, name, speed) ==
    LET currentInstance == GetAttributeAnimationInstance(st, name)
    IN  IF currentInstance # NullInstance
        THEN [st EXCEPT !.attributeAnimationInstances_[name] =
                NewInstance(@.attributeInfo_, @.attributeAnimation_, speed)]
        ELSE st

\* Animatable::SetAttributeAnimationSpeed
SetAttributeAnimationSpeed(st, name, speed) ==
    LET currentInstance == GetAttributeAnimationInstance(st, name)
    IN  IF currentInstance # NullInstance
        THEN [st EXCEPT !.attributeAnimationInstances_[name] = InstanceSetSpeed(@, speed)]
        ELSE st

\* Animatable::GetAttributeAnimationSpeed
DefaultSpeed == 1

GetAttributeAnimationSpeed(st, name) ==
    LET instance == GetAttributeAnimationInstance(st, name)
    IN  IF instance # NullInstance THEN instance.speed_ ELSE DefaultSpeed

\* Animatable::GetAttributeAnimation
GetAttributeAnimation(st, name) == GetAttributeAnimationInstance(st, name).attributeAnimation_

\* Animatable::SetAnimationEnabled
SetAnimationEnabled(st, animationEnabled) == [st EXCEPT !.animationEnabled_ = animationEnabled]

(***************************************************************************)
(* Iteration.  A pass over a hash map visits its keys in the map's own     *)
(* order; `order` lists the names in the order of the pass.                *)
(***************************************************************************)
Orders == {<<"X", "Y">>, <<"Y", "X">>}

Visit(order, keys) == SelectSeq(order, LAMBDA n : n \in keys)

RECURSIVE UnbindEach(_, _)
\* for (i = 0; i < names.Size(); ++i) SetAttributeAnimation(names[i], 0)
UnbindEach(st, names) ==
    IF names = <<>> THEN st
    ELSE UnbindEach(SetAttributeAnimation(st, Head(names), NullAnimation, DefaultSpeed), Tail(names))

RECURSIVE BindUntilRejected(_, _, _)
\* the import stops at the first entry that SetAttributeAnimation rejects
BindUntilRejected(st, objectAnimation, names) ==
    IF names = <<>> THEN st
    ELSE LET info == objectAnimation.attributeAnimationInfos_[Head(names)]
             st1 == SetAttributeAnimation(st, Head(names), info.anim, info.speed)
         IN  IF st1.error # "" THEN st1
             ELSE BindUntilRejected(st1, objectAnimation, Tail(names))

RECURSIVE BindEach(_, _, _)
\* lines 274-275: SetAttributeAnimation(i->first_, i->second_, speed of i->first_)
BindEach(st, objectAnimation, names) ==
    IF names = <<>> THEN st
    ELSE LET info == objectAnimation.attributeAnimationInfos_[Head(names)]
         IN  BindEach(SetAttributeAnimation(st, Head(names), info.anim, info.speed),
                      objectAnimation, Tail(names))

\* Animatable::OnObjectAnimationAdded
OnObjectAnimationAdded(st, objectAnimation, order) ==
    IF objectAnimation = NullObjectAnimation THEN st
    ELSE BindEach(st, objectAnimation,
                  Visit(order, DOMAIN objectAnimation.attributeAnimationInfos_))

OwnedNamesAll(st, objectAnimation) == DOMAIN st.attributeAnimationInstances_

\* lines 285-289: the names whose curve belongs to objectAnimation
OwnedNames(st, objectAnimation) ==
    {n \in DOMAIN st.attributeAnimationInstances_ :
        st.attributeAnimationInstances_[n].attributeAnimation_.objectAnimation_ = objectAnimation.id}

\* Animatable::OnObjectAnimationRemoved
OnObjectAnimationRemoved(st, objectAnimation, order) ==
    IF objectAnimation = NullObjectAnimation THEN st
    ELSE UnbindEach(st, Visit(order, OwnedNames(st, objectAnimation)))

\* without the test of line 126
SetObjectAnimationAlways(st, objectAnimation, order) ==
    LET st1 == IF st.objectAnimation_ # NullObjectAnimation
               THEN OnObjectAnimationRemoved(st, st.objectAnimation_, order)
               ELSE st
        st2 == [st1 EXCEPT !.objectAnimation_ = objectAnimation]
    IN  IF objectAnimation # NullObjectAnimation
        THEN OnObjectAnimationAdded(st2, objectAnimation, order)
        ELSE st2

\* Animatable::SetObjectAnimation
SetObjectAnimation(st, objectAnimation, order) ==
    IF objectAnimation.id = st.objectAnimation_.id THEN st
    ELSE LET st1 == IF st.objectAnimation_ # NullObjectAnimation
                    THEN OnObjectAnimationRemoved(st, st.objectAnimation_, order)
                    ELSE st
             st2 == [st1 EXCEPT !.objectAnimation_ = objectAnimation]
         IN  IF objectAnimation # NullObjectAnimation
             THEN OnObjectAnimationAdded(st2, objectAnimation, order)
             ELSE st2

\* Animatable::SetObjectAnimationAttr, value.name_ = name
SetObjectAnimationAttr(st, name, order) ==
    IF name # "" THEN SetObjectAnimation(st, GetResource(name), order) ELSE st

\* Animatable::GetObjectAnimationAttr: the resource name of objectAnimation_, empty when null
GetObjectAnimationAttr(st) == st.objectAnimation_.name_

(***************************************************************************)
(* Animatable::UpdateAttributeAnimations                                   *)
(***************************************************************************)
UpdateAlways(st) == TRUE

\* line 297
UpdateEnabled(st) == st.animationEnabled_

FinishedNamesNone(advanced, order) == <<>>

\* lines 301-305: the descriptor names of the instances whose Update returned true
FinishedNames(advanced, order) ==
    LET keys == Visit(order, {n \in DOMAIN advanced : InstanceFinished(advanced[n])})
    IN  [i \in DOMAIN keys |-> advanced[keys[i]].attributeInfo_.name_]

\* a finished instance is taken out before it is applied
UpdateEvictThenSkip(st, timeStep, order) ==
    IF ~UpdateEnabled(st) THEN st
    ELSE LET instances == st.attributeAnimationInstances_
             advanced == [n \in DOMAIN instances |-> InstanceAdvance(instances[n], timeStep)]
             st1 == [st EXCEPT
                        !.attributeAnimationInstances_ = advanced,
                        !.writes = [a \in AttributeNames |->
                            Cardinality({n \in DOMAIN instances :
                                            /\ instances[n].attributeInfo_.name_ = a
                                            /\ ~InstanceFinished(advanced[n])})]]
         IN  UnbindEach(st1, FinishedNames(advanced, order))

UpdateAttributeAnimations(st, timeStep, order) ==
    IF ~UpdateEnabled(st) THEN st
    ELSE LET instances == st.attributeAnimationInstances_
             advanced == [n \in DOMAIN instances |-> InstanceAdvance(instances[n], timeStep)]
             st1 == [st EXCEPT
                        !.attributeAnimationInstances_ = advanced,
                        !.writes = [a \in AttributeNames |->
                            Cardinality({n \in DOMAIN instances :
                                            instances[n].attributeInfo_.name_ = a})]]
         IN  UnbindEach(st1, FinishedNames(advanced, order))

(***************************************************************************)
(* Documents.  An element holds what the nested SaveXML wrote into it: a   *)
(* curve's definition, a bundle's entries.  `ok` is the result the nested  *)
(* LoadXML gives on the element.                                           *)
(***************************************************************************)
DefOf(attributeAnimation) ==
    [valueType_ |-> attributeAnimation.valueType_, endTime |-> attributeAnimation.endTime]

NoEntries == [n \in {} |-> [def |-> DefOf(NullAnimation), speed |-> 0]]

NoElement == [present |-> FALSE, ok |-> TRUE, entries |-> NoEntries]

NoDoc == [exists |-> FALSE, ok |-> TRUE, objectAnimationAttr |-> "",
          objectAnimation |-> NoElement, attributeAnimations |-> <<>>]

\* ObjectAnimation::SaveXML into the "objectAnimation" child
SaveObjectAnimation(objectAnimation) ==
    [present |-> TRUE, ok |-> TRUE,
     entries |-> [n \in DOMAIN objectAnimation.attributeAnimationInfos_ |->
                    [def |-> DefOf(objectAnimation.attributeAnimationInfos_[n].anim),
                     speed |-> objectAnimation.attributeAnimationInfos_[n].speed]]]

NameIndex(name) == CASE name = "X" -> 1 [] name = "Y" -> 2 [] OTHER -> 3

\* new ObjectAnimation(context_) and ObjectAnimation::LoadXML: an unnamed bundle of new curves
LoadObjectAnimation(elem, heap) ==
    [id |-> <<heap, 0>>, name_ |-> "",
     attributeAnimationInfos_ |->
        [n \in DOMAIN elem.entries |->
            [anim |-> Curve(<<heap, NameIndex(n)>>, elem.entries[n].def.valueType_,
                            elem.entries[n].def.endTime, <<heap, 0>>),
             speed |-> elem.entries[n].speed]]]

\* new AttributeAnimation(context_) and AttributeAnimation::LoadXML on the k-th child
LoadAttributeAnimation(elem, heap, k) ==
    Curve(<<heap, NameIndex("Z") + k>>, elem.def.valueType_, elem.def.endTime, NullId)

(***************************************************************************)
(* Animatable::SaveXML                                                     *)
(***************************************************************************)
EmbedsNever(st) == FALSE

\* line 94: an object animation without name is saved inline
EmbedsObjectAnimation(st) ==
    st.objectAnimation_ # NullObjectAnimation /\ st.objectAnimation_.name_ = ""

SkippedNever(st, attributeAnimation) == FALSE

\* line 104: a curve that belongs to an object animation is not saved on its own
SkippedOnSave(st, attributeAnimation) == attributeAnimation.objectAnimation_ # NullId

\* lines 107-113
SaveAttributeAnimation(instance) ==
    [name |-> instance.attributeInfo_.name_, ok |-> TRUE,
     def |-> DefOf(instance.attributeAnimation_), speed |-> instance.speed_]

SaveXML(st, order) ==
    LET instances == st.attributeAnimationInstances_
        keys == Visit(order, {n \in DOMAIN instances :
                                ~SkippedOnSave(st, instances[n].attributeAnimation_)})
    IN  [exists |-> TRUE, ok |-> TRUE,
         objectAnimationAttr |-> GetObjectAnimationAttr(st),
         objectAnimation |-> IF EmbedsObjectAnimation(st)
                             THEN SaveObjectAnimation(st.objectAnimation_)
                             ELSE NoElement,
         attributeAnimations |-> [i \in DOMAIN keys |-> SaveAttributeAnimation(instances[keys[i]])]]

(***************************************************************************)
(* Animatable::LoadXML                                                     *)
(***************************************************************************)
\* Serializable::LoadXML: sets the "Object Animation" attribute from the document
SerializableLoadXML(st, source, order) ==
    SetObjectAnimationAttr(st, source.objectAnimationAttr, order)

ClearNothing(st) == st

\* line 59
ClearInstances(st) == [st EXCEPT !.attributeAnimationInstances_ = NoInstances]

RECURSIVE LoadAttributeAnimations(_, _, _, _)
\* lines 71-85
LoadAttributeAnimations(st, elems, heap, k) ==
    IF elems = <<>> THEN [st |-> st, result |-> TRUE]
    ELSE IF ~Head(elems).ok THEN [st |-> st, result |-> FALSE]
    ELSE LoadAttributeAnimations(
            SetAttributeAnimation(st, Head(elems).name,
                                  LoadAttributeAnimation(Head(elems), heap, k), Head(elems).speed),
            Tail(elems), heap, k + 1)

LoadXML(st, source, heap, order) ==
    IF ~source.ok THEN [st |-> st, result |-> FALSE]
    ELSE LET st0 == SerializableLoadXML(st, source, order)
             st1 == ClearInstances(SetObjectAnimation(st0, NullObjectAnimation, order))
             elem == source.objectAnimation
         IN  IF elem.present /\ ~elem.ok THEN [st |-> st1, result |-> FALSE]
             ELSE LET st2 == IF elem.present
                             THEN SetObjectAnimation(st1, LoadObjectAnimation(elem, heap), order)
                             ELSE st1
                  IN  LoadAttributeAnimations(st2, source.attributeAnimations, heap, 1)

(***************************************************************************)
(* Input documents                                                         *)
(***************************************************************************)
FloatDef(end) == [valueType_ |-> "VAR_FLOAT", endTime |-> end]

Child(name, ok, end, speed) == [name |-> name, ok |-> ok, def |-> FloatDef(end), speed |-> speed]

DocOf(ok, attr, elem, children) ==
    [exists |-> TRUE, ok |-> ok, objectAnimationAttr |-> attr,
     objectAnimation |-> elem, attributeAnimations |-> children]

BundleElement(ok) ==
    [present |-> TRUE, ok |-> ok,
     entries |-> [n \in {"X"} |-> [def |-> FloatDef(1), speed |-> 2]]]

DocEmpty == DocOf(TRUE, "", NoElement, <<>>)
DocBundle == DocOf(TRUE, "", BundleElement(TRUE), <<Child("Y", TRUE, 2, 1)>>)
DocBadChild == DocOf(TRUE, "", NoElement, <<Child("X", TRUE, 1, 1), Child("Y", FALSE, 1, 1)>>)
DocBadBundle == DocOf(TRUE, "", BundleElement(FALSE), <<Child("Y", TRUE, 1, 1)>>)
DocBadBase == DocOf(FALSE, "", NoElement, <<>>)
DocNamed == DocOf(TRUE, "walk", NoElement, <<>>)
DocOverride == DocOf(TRUE, "", BundleElement(TRUE), <<Child("X", TRUE, 2, 1), Child("Z", TRUE, 1, 1)>>)

InputDocs == {DocEmpty, DocBundle, DocBadChild, DocBadBundle, DocBadBase, DocNamed, DocOverride}

(***************************************************************************)
(* The state machine                                                       *)
(***************************************************************************)
NotLoaded == [exists |-> FALSE, st |-> NewAnimatable, result |-> FALSE]

NoCall == [op |-> "Animatable", name |-> "", time |-> 0, speed |-> DefaultSpeed,
           added |-> 0, removed |-> 0,
           writes |-> NoWrites, error |-> "", result |-> TRUE]

Init ==
    /\ (hasAttributes = TRUE \/ hasAttributes = FALSE)
    /\ animationEnabled_ = NewAnimatable.animationEnabled_
    /\ objectAnimation_ = NewAnimatable.objectAnimation_
    /\ attributeAnimationInstances_ = NewAnimatable.attributeAnimationInstances_
    /\ animatedNetworkAttributes_ = NewAnimatable.animatedNetworkAttributes_
    /\ last = NoCall
    /\ doc = NoDoc
    /\ loaded = NotLoaded

\* the call op, on attribute name if it names one, returned result and left the
\* Animatable as st; time and speed are what the attribute's instance had before
Returns(st, op, name, result) ==
    /\ ~doc.exists
    /\ animationEnabled_' = st.animationEnabled_
    /\ objectAnimation_' = st.objectAnimation_
    /\ attributeAnimationInstances_' = st.attributeAnimationInstances_
    /\ animatedNetworkAttributes_' = st.animatedNetworkAttributes_
    /\ last' = [op |-> op, name |-> name,
                time |-> GetAttributeAnimationInstance(Self, name).currentTime_,
                speed |-> GetAttributeAnimationSpeed(Self, name),
                added |-> st.added, removed |-> st.removed,
                writes |-> st.writes, error |-> st.error, result |-> result]
    /\ UNCHANGED <<hasAttributes, doc, loaded>>

Bind(name, attributeAnimation, speed) ==
    Returns(SetAttributeAnimation(Self, name, attributeAnimation, speed),
            "SetAttributeAnimation", name, TRUE)

Unbind(name) ==
    Returns(SetAttributeAnimation(Self, name, NullAnimation, DefaultSpeed),
            "SetAttributeAnimation", name, TRUE)

SetSpeed(name, speed) ==
    Returns(SetAttributeAnimationSpeed(Self, name, speed),
            "SetAttributeAnimationSpeed", name, TRUE)

SetEnabled(enabled) ==
    Returns(SetAnimationEnabled(Self, enabled), "SetAnimationEnabled", "", TRUE)

SetBundle(objectAnimation, order) ==
    Returns(SetObjectAnimation(Self, objectAnimation, order),
            "SetObjectAnimation", "", TRUE)

SetBundleAttr(name, order) ==
    Returns(SetObjectAnimationAttr(Self, name, order),
            "SetObjectAnimationAttr", "", TRUE)

Tick(timeStep, order) ==
    Returns(UpdateAttributeAnimations(Self, timeStep, order),
            "UpdateAttributeAnimations", "", TRUE)

Load(source, order) ==
    LET r == LoadXML(Self, source, "load", order)
    IN  Returns(r.st, "LoadXML", "", r.result)

Save(order) ==
    /\ ~doc.exists
    /\ doc' = SaveXML(Self, order)
    /\ last' = [NoCall EXCEPT !.op = "SaveXML"]
    /\ UNCHANGED <<hasAttributes, animationEnabled_, objectAnimation_,
                   attributeAnimationInstances_, animatedNetworkAttributes_, loaded>>

\* Animatable b(context); b.LoadXML(doc)
LoadSaved(order) ==
    /\ doc.exists
    /\ ~loaded.exists
    /\ LET r == LoadXML(NewAnimatable, doc, "copy", order)
       IN  loaded' = [exists |-> TRUE, st |-> r.st, result |-> r.result]
    /\ UNCHANGED <<hasAttributes, animationEnabled_, objectAnimation_,
                   attributeAnimationInstances_, animatedNetworkAttributes_, last, doc>>

\* the curves a caller can hand over: the resources, and what GetAttributeAnimation returns
BindableAnimations ==
    StaticAnimations \cup {GetAttributeAnimation(Self, n) : n \in DOMAIN attributeAnimationInstances_}

BindAction == \E name \in Names, attributeAnimation \in BindableAnimations, speed \in Speeds :
                 Bind(name, attributeAnimation, speed)
UnbindAction == \E name \in Names : Unbind(name)
SetSpeedAction == \E name \in Names, speed \in Speeds : SetSpeed(name, speed)
SetEnabledAction == \E enabled \in BOOLEAN : SetEnabled(enabled)
SetBundleAction == \E objectAnimation \in ObjectAnimations \cup {NullObjectAnimation, objectAnimation_},
                      order \in Orders : SetBundle(objectAnimation, order)
SetBundleAttrAction == \E name \in ResourceNames, order \in Orders : SetBundleAttr(name, order)
TickAction == \E timeStep \in TimeSteps, order \in Orders : Tick(timeStep, order)
LoadAction == \E source \in InputDocs, order \in Orders : Load(source, order)
SaveAction == \E order \in Orders : Save(order)
LoadSavedAction == \E order \in Orders : LoadSaved(order)

Next ==
    \/ BindAction
    \/ UnbindAction
    \/ SetSpeedAction
    \/ SetEnabledAction
    \/ SetBundleAction
    \/ SetBundleAttrAction
    \/ TickAction
    \/ LoadAction

Spec == Init /\ [][Next]_vars

\* Saving: the calls that decide what SaveXML writes, then SaveXML, then the load of
\* the saved document by a new Animatable
NextSave ==
    \/ BindAction
    \/ UnbindAction
    \/ SetSpeedAction
    \/ SetBundleAction
    \/ LoadAction
    \/ SaveAction
    \/ LoadSavedAction

SpecSave == Init /\ [][NextSave]_vars

(***************************************************************************)
(* Properties                                                              *)
(***************************************************************************)
Bound == DOMAIN attributeAnimationInstances_

\* the descriptor the schema gives for name
SchemaInfo(name) == CHOOSE info \in {Attributes[i] : i \in DOMAIN Attributes} : info.name_ = name

\* the names a step can have called SetAttributeAnimation with: a step of Bind(name, ..)
\* leaves the call in last
BindCalled == {n \in Names : last'.op = "SetAttributeAnimation" /\ last'.name = n}

BoundNetworkAttributes ==
    {attributeAnimationInstances_[n].attributeInfo_ :
        n \in {k \in Bound : IsNetAttribute(attributeAnimationInstances_[k].attributeInfo_)}}

\* C1: after any sequence of operations, Load included, the replicated-animated index
\* holds an attribute if and only if the attribute is bound and its descriptor is
\* network-replicated.
C1_IndexIsBoundNetworkAttributes == animatedNetworkAttributes_ = BoundNetworkAttributes

\* a Bind the claim calls rejected: no schema, no descriptor of that name, or a curve
\* whose value type is not the descriptor's
C2_Rejected(name, attributeAnimation) ==
    \/ ~hasAttributes
    \/ name \notin AttributeNames
    \/ attributeAnimation.valueType_ # SchemaInfo(name).type_

\* C2: a rejected Bind of a non-null curve leaves the bindings (an existing binding of
\* that name with its curve, speed and progress included), the active bundle and the
\* replicated-animated index unchanged, and fires neither hook.
C2_RejectedBindChangesNothing ==
    [][\A name \in BindCalled, attributeAnimation \in BindableAnimations, speed \in Speeds :
        (C2_Rejected(name, attributeAnimation) /\ Bind(name, attributeAnimation, speed))
            => /\ attributeAnimationInstances_' = attributeAnimationInstances_
               /\ objectAnimation_' = objectAnimation_
               /\ animatedNetworkAttributes_' = animatedNetworkAttributes_
               /\ last'.added = 0
               /\ last'.removed = 0]_vars

\* C2 happens: a Bind was rejected for its value type on an attribute whose binding
\* has already advanced
C2_Witness ==
    /\ last.op = "SetAttributeAnimation"
    /\ last.error = "Invalid value type"
    /\ last.name \in Bound
    /\ last.time > 0
    /\ attributeAnimationInstances_[last.name].currentTime_ = last.time

\* C3: Bind of the curve already bound to the attribute changes only that binding's
\* speed: the progress is kept, no hook fires, and the index, the bundle and the other
\* bindings are unchanged.
C3_SameCurveBindChangesOnlySpeed ==
    [][\A name \in BindCalled, attributeAnimation \in BindableAnimations, speed \in Speeds :
        (/\ name \in Bound
         /\ attributeAnimationInstances_[name].attributeAnimation_.id = attributeAnimation.id
         /\ Bind(name, attributeAnimation, speed))
            => /\ attributeAnimationInstances_' =
                    [attributeAnimationInstances_ EXCEPT ![name].speed_ = speed]
               /\ objectAnimation_' = objectAnimation_
               /\ animatedNetworkAttributes_' = animatedNetworkAttributes_
               /\ last'.added = 0
               /\ last'.removed = 0]_vars

\* C3 happens: a Bind gave a new speed to a binding that had advanced, and the
\* progress is still there
C3_Witness ==
    /\ last.op = "SetAttributeAnimation"
    /\ last.error = ""
    /\ last.added = 0
    /\ last.name \in Bound
    /\ last.time > 0
    /\ attributeAnimationInstances_[last.name].currentTime_ = last.time
    /\ attributeAnimationInstances_[last.name].speed_ # last.speed

\* C4: Bind of a type-compatible curve other than the bound one replaces the binding
\* by a new instance (that curve, that speed, progress 0, the descriptor as before),
\* fires no hook, and leaves the set of bound names and the index unchanged.
C4_OtherCurveBindReplaces ==
    [][\A name \in BindCalled, attributeAnimation \in BindableAnimations, speed \in Speeds :
        (/\ name \in Bound
         /\ attributeAnimationInstances_[name].attributeAnimation_.id # attributeAnimation.id
         /\ attributeAnimation.valueType_ = attributeAnimationInstances_[name].attributeInfo_.type_
         /\ Bind(name, attributeAnimation, speed))
            => /\ attributeAnimationInstances_' =
                    [attributeAnimationInstances_ EXCEPT ![name] =
                        [attributeInfo_ |-> attributeAnimationInstances_[name].attributeInfo_,
                         attributeAnimation_ |-> attributeAnimation,
                         speed_ |-> speed, currentTime_ |-> 0]]
               /\ Cardinality(DOMAIN attributeAnimationInstances_') = Cardinality(Bound)
               /\ animatedNetworkAttributes_' = animatedNetworkAttributes_
               /\ last'.added = 0
               /\ last'.removed = 0]_vars

\* C4 happens: a Bind without error and without hook put a binding that had advanced
\* back to progress 0
C4_Witness ==
    /\ last.op = "SetAttributeAnimation"
    /\ last.error = ""
    /\ last.added = 0
    /\ last.removed = 0
    /\ last.name \in Bound
    /\ last.time > 0
    /\ attributeAnimationInstances_[last.name].currentTime_ = 0

\* a step of Tick leaves the call in last
TickCalled == last'.op = "UpdateAttributeAnimations"

\* the names whose instance reports completion when advanced by timeStep
FinishingNames(timeStep) ==
    {n \in Bound : InstanceFinished(InstanceAdvance(attributeAnimationInstances_[n], timeStep))}

\* C5: with animation enabled, a Tick keeps every binding that does not finish in it
\* (so a binding that finishes on its N-th Tick is there after the first N-1) and
\* removes every binding that finishes in it, with one call of the removed hook for
\* each, its attribute taken out of the index, and the unfinished bindings in place.
C5_TickEvictsTheFinished ==
    [][(TickCalled /\ animationEnabled_) =>
        \A timeStep \in TimeSteps :
            (\E order \in Orders : Tick(timeStep, order)) =>
                /\ DOMAIN attributeAnimationInstances_' = Bound \ FinishingNames(timeStep)
                /\ \A n \in Bound \ FinishingNames(timeStep) :
                        attributeAnimationInstances_'[n] =
                            InstanceAdvance(attributeAnimationInstances_[n], timeStep)
                /\ last'.removed = Cardinality(FinishingNames(timeStep))
                /\ last'.added = 0
                /\ animatedNetworkAttributes_' =
                        animatedNetworkAttributes_ \
                            {attributeAnimationInstances_[n].attributeInfo_ : n \in FinishingNames(timeStep)}
                /\ objectAnimation_' = objectAnimation_]_vars

\* C5 happens: a Tick has just removed the binding of the network attribute X, which
\* it advanced, with one call of the removed hook, and the binding of Y, which has
\* not finished, is still there
C5_Witness ==
    /\ last.op = "UpdateAttributeAnimations"
    /\ last.removed = 1
    /\ last.writes["X"] = 1
    /\ "X" \notin Bound
    /\ AttrX \notin animatedNetworkAttributes_
    /\ "Y" \in Bound
    /\ attributeAnimationInstances_["Y"].currentTime_ > 0

\* C6: while animation is disabled a Tick changes no progress, writes no attribute,
\* removes no binding, fires no hook and leaves the index and the bundle unchanged;
\* SetAnimationEnabled changes the switch alone, and an enabled Tick advances each
\* binding it keeps from the progress the binding had.
C6_DisabledTickPausesInPlace ==
    [][/\ (TickCalled /\ ~animationEnabled_ /\ \E timeStep \in TimeSteps, order \in Orders :
                                                    Tick(timeStep, order))
            => /\ attributeAnimationInstances_' = attributeAnimationInstances_
               /\ animatedNetworkAttributes_' = animatedNetworkAttributes_
               /\ objectAnimation_' = objectAnimation_
               /\ animationEnabled_' = animationEnabled_
               /\ last'.writes = NoWrites
               /\ last'.added = 0
               /\ last'.removed = 0
       /\ (last'.op = "SetAnimationEnabled" /\ \E enabled \in BOOLEAN : SetEnabled(enabled))
            => /\ attributeAnimationInstances_' = attributeAnimationInstances_
               /\ animatedNetworkAttributes_' = animatedNetworkAttributes_
               /\ objectAnimation_' = objectAnimation_
       /\ (TickCalled /\ animationEnabled_)
            => \A timeStep \in TimeSteps :
                 (\E order \in Orders : Tick(timeStep, order)) =>
                    \A n \in DOMAIN attributeAnimationInstances_' :
                        attributeAnimationInstances_'[n].currentTime_ =
                            attributeAnimationInstances_[n].currentTime_
                                + timeStep * attributeAnimationInstances_[n].speed_]_vars

\* C6 happens: a Tick ran while animation was disabled and a binding that had
\* advanced before is still at its progress
C6_Witness ==
    /\ last.op = "UpdateAttributeAnimations"
    /\ ~animationEnabled_
    /\ last.writes = NoWrites
    /\ \E n \in Bound : attributeAnimationInstances_[n].currentTime_ > 0

(***************************************************************************)
(* Properties of SaveXML and of the load of the saved document, under      *)
(* SpecSave: once doc exists the Animatable that saved it stays as it was  *)
(* when it saved, and loaded is the new Animatable that loaded doc.        *)
(***************************************************************************)
HasObjectAnimation == objectAnimation_ # NullObjectAnimation

\* I3: the binding of n has a curve whose bundle is the active bundle
OwnedByActiveBundle(n) ==
    /\ HasObjectAnimation
    /\ attributeAnimationInstances_[n].attributeAnimation_.objectAnimation_ = objectAnimation_.id

\* the "attributeAnimation" children of doc that are named n
ChildrenNamed(n) ==
    {i \in DOMAIN doc.attributeAnimations : doc.attributeAnimations[i].name = n}

\* every binding is an entry of the active bundle: its name, its curve, its speed
BindingsAreBundleEntries ==
    \A n \in Bound :
        /\ n \in DOMAIN objectAnimation_.attributeAnimationInfos_
        /\ attributeAnimationInstances_[n].attributeAnimation_.id =
                objectAnimation_.attributeAnimationInfos_[n].anim.id
        /\ attributeAnimationInstances_[n].speed_ = objectAnimation_.attributeAnimationInfos_[n].speed

\* C7: when an Animatable whose active bundle is anonymous and whose bindings are
\* that bundle's entries is saved and the document is loaded by a new Animatable of
\* the same type, the new one has an active bundle and, for every attribute bound in
\* the original, a binding with the same speed and the same curve definition.
C7_AnonymousBundleRoundTrip ==
    (/\ loaded.exists
     /\ HasObjectAnimation
     /\ objectAnimation_.name_ = ""
     /\ BindingsAreBundleEntries)
        => /\ loaded.result
           /\ loaded.st.objectAnimation_ # NullObjectAnimation
           /\ \A n \in Bound :
                /\ n \in DOMAIN loaded.st.attributeAnimationInstances_
                /\ loaded.st.attributeAnimationInstances_[n].speed_ =
                        attributeAnimationInstances_[n].speed_
                /\ DefOf(loaded.st.attributeAnimationInstances_[n].attributeAnimation_) =
                        DefOf(attributeAnimationInstances_[n].attributeAnimation_)

\* C7 happens: an Animatable with an anonymous bundle and two bindings, both entries
\* of the bundle, was saved and its document loaded by a new Animatable
C7_Witness ==
    /\ loaded.exists
    /\ HasObjectAnimation
    /\ objectAnimation_.name_ = ""
    /\ BindingsAreBundleEntries
    /\ Cardinality(Bound) = 2

\* the entries of the active bundle that pass the validation of Bind
ValidEntries ==
    {n \in DOMAIN objectAnimation_.attributeAnimationInfos_ :
        ~C2_Rejected(n, objectAnimation_.attributeAnimationInfos_[n].anim)}

\* C8: a named active bundle is not written as an "objectAnimation" child and comes
\* back by reference: after SaveXML and the load of the saved document the active
\* bundle is the named bundle and every valid entry of it is bound.
C8_NamedBundleComesBackByReference ==
    (loaded.exists /\ HasObjectAnimation /\ objectAnimation_.name_ # "")
        => /\ ~doc.objectAnimation.present
           /\ loaded.st.objectAnimation_.id = objectAnimation_.id
           /\ \A n \in ValidEntries : n \in DOMAIN loaded.st.attributeAnimationInstances_

\* C9: SaveXML writes no "attributeAnimation" child for a binding whose curve belongs
\* to the active bundle, so no name has both the bundle's entry and a child of its
\* own for the same bundle-owned curve.
C9_BundleOwnedNotSavedAlone ==
    doc.exists => \A n \in Bound : OwnedByActiveBundle(n) => ChildrenNamed(n) = {}

\* C9 happens: the saved document holds the bundle, the Animatable has a binding owned
\* by the bundle and a binding of its own, and the document has one child
C9_Witness ==
    /\ doc.exists
    /\ doc.objectAnimation.present
    /\ \E n \in Bound : OwnedByActiveBundle(n)
    /\ \E n \in Bound : ~OwnedByActiveBundle(n)
    /\ Len(doc.attributeAnimations) = 1

\* C10: SaveXML writes exactly one "attributeAnimation" child, with the name and the
\* current speed, for every binding whose curve does not belong to the active bundle
\* (a curve of another bundle, or of any bundle when there is no active bundle,
\* included).
C10_EveryOtherBindingSaved ==
    doc.exists =>
        \A n \in Bound : ~OwnedByActiveBundle(n) =>
            /\ Cardinality(ChildrenNamed(n)) = 1
            /\ \A i \in ChildrenNamed(n) :
                    doc.attributeAnimations[i].speed = attributeAnimationInstances_[n].speed_

(***************************************************************************)
(* Properties of LoadXML, under Spec                                       *)
(***************************************************************************)
\* a step of Load leaves the call in last
LoadCalled == last'.op = "LoadXML"

\* the bundle LoadXML constructs from the "objectAnimation" child of source
DocumentBundle(source) ==
    IF source.objectAnimation.present
    THEN LoadObjectAnimation(source.objectAnimation, "load")
    ELSE NullObjectAnimation

\* what the document gives for attribute n, in the order of the document: the entry
\* of its bundle, then its "attributeAnimation" children named n
DocumentCurves(source, n) ==
    LET infos == DocumentBundle(source).attributeAnimationInfos_
        children == source.attributeAnimations
        named == SelectSeq([i \in DOMAIN children |-> i], LAMBDA i : children[i].name = n)
    IN  (IF n \in DOMAIN infos THEN <<infos[n]>> ELSE <<>>)
        \o [j \in DOMAIN named |->
                [anim |-> LoadAttributeAnimation(children[named[j]], "load", named[j]),
                 speed |-> children[named[j]].speed]]

\* those of them that Bind accepts
AcceptedCurves(source, n) ==
    SelectSeq(DocumentCurves(source, n), LAMBDA c : ~C2_Rejected(n, c.anim))

\* the bindings of a document: for each attribute the last curve accepted for it
DocumentBindings(source) ==
    [n \in {k \in Names : AcceptedCurves(source, k) # <<>>} |->
        LET c == AcceptedCurves(source, n)[Len(AcceptedCurves(source, n))]
        IN  [attributeInfo_ |-> SchemaInfo(n), attributeAnimation_ |-> c.anim,
             speed_ |-> c.speed, currentTime_ |-> 0]]

\* C11: after a successful Load, whatever the Animatable held before, its active
\* bundle is the bundle of the document's "objectAnimation" child (none without such
\* a child) and its bindings are exactly those of importing that bundle and then
\* binding each "attributeAnimation" child in document order; nothing of the
\* previous bundle and bindings is left.
C11_LoadReplacesBundleAndBindings ==
    [][(LoadCalled /\ last'.result) =>
        \A source \in InputDocs :
            (\E order \in Orders : Load(source, order)) =>
                /\ objectAnimation_' = DocumentBundle(source)
                /\ attributeAnimationInstances_' = DocumentBindings(source)]_vars

\* C11 happens: a successful Load took the bindings of the bundle that was active
\* away and left the document's bundle with the document's two bindings
C11_Witness ==
    /\ last.op = "LoadXML"
    /\ last.result
    /\ last.removed > 0
    /\ objectAnimation_.id = <<"load", 0>>
    /\ Bound = {"X", "Y"}

\* the nested load of the "objectAnimation" child or of an "attributeAnimation" child
\* of source fails
NestedLoadFails(source) ==
    /\ source.ok
    /\ \/ source.objectAnimation.present /\ ~source.objectAnimation.ok
       \/ \E i \in DOMAIN source.attributeAnimations : ~source.attributeAnimations[i].ok

\* C12: when the nested load of a child fails, Load returns failure and the
\* Animatable is left with no bundle and no binding from the children before the
\* failing one.
C12_FailedLoadLeavesNothing ==
    [][LoadCalled =>
        \A source \in InputDocs :
            (NestedLoadFails(source) /\ \E order \in Orders : Load(source, order)) =>
                /\ ~last'.result
                /\ objectAnimation_' = NullObjectAnimation
                /\ attributeAnimationInstances_' = NoInstances]_vars

(***************************************************************************)
(* Properties of SetObjectAnimation, under Spec                            *)
(***************************************************************************)
\* a step of SetBundle leaves the call in last
SetBundleCalled == last'.op = "SetObjectAnimation"

\* the bound names whose curve has the active bundle as its bundle
OwnedByActive == {n \in Bound : OwnedByActiveBundle(n)}

\* the names of the entries of objectAnimation that pass the validation of Bind
ValidEntriesOf(objectAnimation) ==
    {n \in DOMAIN objectAnimation.attributeAnimationInfos_ :
        ~C2_Rejected(n, objectAnimation.attributeAnimationInfos_[n].anim)}

\* C13: SetBundle(B) with B other than the active bundle A unbinds every binding
\* whose curve belongs to A, with one call of the removed hook for each and the index
\* updated, makes B the active bundle, and binds every valid entry of B with the
\* entry's curve and speed.  Afterwards no binding has a curve of A, and the bindings
\* that were neither A's nor named by an entry of B are as they were.
C13_SetBundleSwapsTheBundleBindings ==
    [][SetBundleCalled =>
        \A B \in ObjectAnimations \cup {NullObjectAnimation} :
            (B.id # objectAnimation_.id /\ \E order \in Orders : SetBundle(B, order)) =>
                LET valid == ValidEntriesOf(B)
                IN  /\ objectAnimation_' = B
                    /\ last'.removed = Cardinality(OwnedByActive)
                    /\ DOMAIN attributeAnimationInstances_' = (Bound \ OwnedByActive) \cup valid
                    /\ \A n \in valid :
                        /\ attributeAnimationInstances_'[n].attributeAnimation_ =
                                B.attributeAnimationInfos_[n].anim
                        /\ attributeAnimationInstances_'[n].speed_ = B.attributeAnimationInfos_[n].speed
                    /\ \A n \in (Bound \ OwnedByActive) \ DOMAIN B.attributeAnimationInfos_ :
                        attributeAnimationInstances_'[n] = attributeAnimationInstances_[n]
                    /\ HasObjectAnimation =>
                        \A n \in DOMAIN attributeAnimationInstances_' :
                            attributeAnimationInstances_'[n].attributeAnimation_.objectAnimation_
                                # objectAnimation_.id
                    /\ animatedNetworkAttributes_' =
                        (animatedNetworkAttributes_
                            \ {attributeAnimationInstances_[n].attributeInfo_ : n \in OwnedByActive})
                        \cup {SchemaInfo(n) : n \in {k \in valid : IsNetAttribute(SchemaInfo(k))}}]_vars

\* C13 happens: SetBundle has replaced a bundle, whose one binding it removed, by the
\* bundle "walk", whose valid entry X is bound, and the binding of Y, which was
\* nobody's and had advanced, is as it was
C13_Witness ==
    /\ last.op = "SetObjectAnimation"
    /\ last.removed = 1
    /\ objectAnimation_ = WalkAnimation
    /\ Bound = {"X", "Y"}
    /\ attributeAnimationInstances_["X"].attributeAnimation_ = AnimB2X
    /\ attributeAnimationInstances_["Y"].attributeAnimation_.objectAnimation_ = NullId
    /\ attributeAnimationInstances_["Y"].currentTime_ > 0

\* C14: the hooks follow the bindings: the added hook is called once each time a name
\* goes from unbound to bound, the removed hook once each time a name goes from bound
\* to unbound, and neither otherwise; so over every call, Load included, the calls of
\* the added hook minus the calls of the removed hook are the change in the number of
\* bindings, and after any sequence of calls their difference is the number of
\* bindings.
C14_HooksFollowTheBindings ==
    [][last'.added - last'.removed =
            Cardinality(DOMAIN attributeAnimationInstances_') - Cardinality(Bound)]_vars

(***************************************************************************)
(* Properties of UpdateAttributeAnimations, under Spec                     *)
(***************************************************************************)
\* C15: an enabled Tick advances every binding that is there when it starts exactly
\* once, with one attribute write each, the bindings that finish in this Tick
\* included: a binding that finishes has its attribute written in the Tick that
\* removes it, and the bindings that stay have advanced once.
C15_TickAppliesThenEvicts ==
    [][(TickCalled /\ animationEnabled_) =>
        \A timeStep \in TimeSteps :
            (\E order \in Orders : Tick(timeStep, order)) =>
                /\ \A a \in AttributeNames : last'.writes[a] = IF a \in Bound THEN 1 ELSE 0
                /\ \A n \in FinishingNames(timeStep) :
                        /\ last'.writes[n] = 1
                        /\ n \notin DOMAIN attributeAnimationInstances_'
                /\ \A n \in DOMAIN attributeAnimationInstances_' :
                        attributeAnimationInstances_'[n] =
                            InstanceAdvance(attributeAnimationInstances_[n], timeStep)]_vars

\* C15 happens: a Tick wrote both attributes and removed both bindings, which
\* finished in it
C15_Witness ==
    /\ last.op = "UpdateAttributeAnimations"
    /\ \A a \in AttributeNames : last.writes[a] = 1
    /\ last.removed = 2
    /\ Bound = {}

\* C16: SetBundle of the bundle that is already active changes nothing: the bindings
\* with their curves, speeds and progress, the index and the bundle are as they were
\* and no hook is called, also when bindings of the bundle have finished, were
\* unbound or replaced, or had their speed changed.
C16_SetSameBundleChangesNothing ==
    [][(SetBundleCalled /\ \E order \in Orders : SetBundle(objectAnimation_, order))
            => /\ attributeAnimationInstances_' = attributeAnimationInstances_
               /\ animatedNetworkAttributes_' = animatedNetworkAttributes_
               /\ objectAnimation_' = objectAnimation_
               /\ animationEnabled_' = animationEnabled_
               /\ last'.added = 0
               /\ last'.removed = 0
               /\ last'.writes = NoWrites]_vars

\* C16 happens: after a SetBundle a bundle is active of which one valid entry is not
\* bound and another is bound with a speed that is not the entry's
C16_Witness ==
    /\ last.op = "SetObjectAnimation"
    /\ HasObjectAnimation
    /\ \E n \in ValidEntries : n \notin Bound
    /\ \E n \in ValidEntries :
        /\ n \in Bound
        /\ OwnedByActiveBundle(n)
        /\ attributeAnimationInstances_[n].speed_ # objectAnimation_.attributeAnimationInfos_[n].speed

\* C17: the state SetBundle(B) leaves (the bindings with their curves and speeds, the
\* index, the active bundle, the calls of the hooks) is the same for every order in
\* which the entries of B are imported, from any state, one with bindings of its own
\* on names of B included.
C17_ImportOrderDoesNotMatter ==
    [][SetBundleCalled =>
        \A B \in ObjectAnimations \cup {NullObjectAnimation} :
            (\E order \in Orders : SetBundle(B, order)) =>
                \A order \in Orders :
                    LET st == SetObjectAnimation(Self, B, order)
                    IN  /\ attributeAnimationInstances_' = st.attributeAnimationInstances_
                        /\ animatedNetworkAttributes_' = st.animatedNetworkAttributes_
                        /\ objectAnimation_' = st.objectAnimation_
                        /\ last'.added = st.added
                        /\ last'.removed = st.removed]_vars

\* C17 happens: SetBundle imported a bundle of two entries into an Animatable that had
\* a binding on one of the two names: both are bound to the bundle's curves and the
\* added hook was called once
C17_Witness ==
    /\ last.op = "SetObjectAnimation"
    /\ last.added = 1
    /\ last.removed = 0
    /\ Bound = {"X", "Y"}
    /\ \A n \in Bound : OwnedByActiveBundle(n)

(***************************************************************************)
(* Properties of the speed, the descriptors and the "Object Animation"     *)
(* attribute, under Spec                                                   *)
(***************************************************************************)
\* the names a step can have called SetAttributeAnimationSpeed with
SetSpeedCalled == {n \in Names : last'.op = "SetAttributeAnimationSpeed" /\ last'.name = n}

\* C18: SetSpeed(name, s) changes the speed of the binding of name and nothing else
\* (curve, progress, index, bundle, hooks), and changes nothing at all when name is
\* unbound; GetSpeed(name) is the speed of the binding when name is bound and 1.0
\* when it is not.
C18_SetSpeedChangesOnlyTheSpeed ==
    [][\A name \in SetSpeedCalled, speed \in Speeds :
        SetSpeed(name, speed) =>
            /\ attributeAnimationInstances_' =
                    IF name \in Bound
                    THEN [attributeAnimationInstances_ EXCEPT ![name].speed_ = speed]
                    ELSE attributeAnimationInstances_
            /\ animatedNetworkAttributes_' = animatedNetworkAttributes_
            /\ objectAnimation_' = objectAnimation_
            /\ animationEnabled_' = animationEnabled_
            /\ last'.added = 0
            /\ last'.removed = 0
            /\ last'.writes = NoWrites
            /\ last'.speed = IF name \in Bound THEN attributeAnimationInstances_[name].speed_ ELSE 1
            /\ GetAttributeAnimationSpeed(
                    [attributeAnimationInstances_ |-> attributeAnimationInstances_'], name)
                = IF name \in Bound THEN speed ELSE 1]_vars

\* C18 happens: SetSpeed gave another speed to a binding that had advanced, and the
\* binding is at the same progress
C18_Witness ==
    /\ last.op = "SetAttributeAnimationSpeed"
    /\ last.name \in Bound
    /\ last.time > 0
    /\ attributeAnimationInstances_[last.name].currentTime_ = last.time
    /\ attributeAnimationInstances_[last.name].speed_ # last.speed

\* the descriptor names a Tick of timeStep collects as finished, as a set
FinishedDescriptorNames(timeStep, order) ==
    LET advanced == [n \in Bound |-> InstanceAdvance(attributeAnimationInstances_[n], timeStep)]
        names == FinishedNames(advanced, order)
    IN  {names[i] : i \in DOMAIN names}

\* C19: after any sequence of operations every attribute name has at most one
\* instance, and the instance stored under a name holds the descriptor of that name
\* and a curve of the descriptor's value type; so the descriptor names a Tick unbinds
\* are exactly the names of the bindings that reported completion.
C19_DescriptorsMatchTheirKeys ==
    /\ \A n \in Bound :
        /\ attributeAnimationInstances_[n].attributeInfo_.name_ = n
        /\ attributeAnimationInstances_[n].attributeInfo_.type_ =
                attributeAnimationInstances_[n].attributeAnimation_.valueType_
    /\ \A timeStep \in TimeSteps, order \in Orders :
        FinishedDescriptorNames(timeStep, order) = FinishingNames(timeStep)

\* C19 happens: a Tick wrote Y, whose binding finished, and removed that binding alone;
\* the binding of X is still there
C19_Witness ==
    /\ last.op = "UpdateAttributeAnimations"
    /\ last.removed = 1
    /\ last.writes["Y"] = 1
    /\ "Y" \notin Bound
    /\ "X" \in Bound

\* C20: setting the "Object Animation" attribute to a reference with an empty name
\* leaves the active bundle and the bindings as they are; setting it to a non-empty
\* name installs the bundle the resource cache resolves for the name; so the
\* attribute never clears an active bundle.
C20_AttributeNeverClearsTheBundle ==
    [][last'.op = "SetObjectAnimationAttr" =>
        \A name \in ResourceNames :
            (\E order \in Orders : SetBundleAttr(name, order)) =>
                /\ name = "" =>
                    /\ objectAnimation_' = objectAnimation_
                    /\ attributeAnimationInstances_' = attributeAnimationInstances_
                    /\ animatedNetworkAttributes_' = animatedNetworkAttributes_
                /\ name # "" => objectAnimation_' = GetResource(name)
                /\ HasObjectAnimation => objectAnimation_' # NullObjectAnimation]_vars

====
